---- MODULE Spec2Model ----
(***************************************************************************)
(* Model of src/src-tauri/src/lib.rs: the order-book feed client.          *)
(*                                                                         *)
(* start_websocket_connection spawns two tasks that share one bounded      *)
(* mpsc channel:                                                           *)
(*   - the connection loop (lines 89-155): backoff, connect, subscribe,    *)
(*     read frames, decode them and forward them with tx.send;             *)
(*   - the processing loop (lines 159-202): rx.recv, replace the buy and   *)
(*     sell maps, update_history, generate_heatmap, emit.                  *)
(*                                                                         *)
(* Values.  An f64 is a record [k, n, d]: k = "num" with n/d (every        *)
(* finite text of the model denotes an integer), k = "inf" with the sign   *)
(* n, or k = "nan".  A finite value is the exact rational n/d; the         *)
(* rounding of f64 arithmetic is not modelled.  An OrderedFloat key is the *)
(* same record with d = 1; record equality is OrderedFloat's equality (NaN *)
(* equals NaN).  A BTreeMap is a function from its keys to its values.     *)
(* Time.  The time field of an update is an i64.  The time fields of one   *)
(* run are env.time_base plus a small offset, and the model keeps the      *)
(* offset: the base is 0 (epoch milliseconds) or i64::MIN, where the i64   *)
(* subtraction `timestamp - 300_000` overflows for an offset below 300000. *)
(*                                                                         *)
(* Integer overflow.  i32 and u64 arithmetic that overflows panics in a    *)
(* build with overflow checks (the dev profile) and wraps in a build       *)
(* without them (the release profile); env.overflow_checks says which      *)
(* build runs.                                                             *)
(***************************************************************************)
EXTENDS Integers, Sequences, FiniteSets, TLC

VARIABLES
    env,          \* what the surroundings may do in this run (frames, caps)
    pc,           \* position of the connection loop
    retry_count,  \* line 90
    wait_time,    \* seconds slept at the head of the current iteration (0: none)
    ws,           \* number of live ws_stream values (open connections)
    inbound,      \* the last frame yielded by ws_stream.next()
    parsed,       \* the decoded update held by a pending tx.send
    lost,         \* which failure ended the previous iteration of the loop
    sent,         \* number of updates forwarded into the channel so far
    queue,        \* contents of the mpsc channel
    rx_open,      \* the receiver half of the channel is alive
    taken,        \* number of updates rx.recv() has returned
    cur,          \* the update bound to msg in the processing loop
    buy,          \* OrderBookState.buy
    sell,         \* OrderBookState.sell
    history,      \* OrderBookState.history
    sink          \* the last emit attempt on the event sink

vars == <<env, pc, retry_count, wait_time, ws, inbound, parsed, lost, sent,
          queue, rx_open, taken, cur, buy, sell, history, sink>>

feedVars == <<pc, retry_count, wait_time, ws, inbound, parsed, lost, sent>>
bookVars == <<taken, cur, buy, sell, history, sink>>

----------------------------------------------------------------------------
(* Program constants *)

WINDOW_MS == 300000
HEATMAP_WIDTH == 1920
HEATMAP_HEIGHT == 1080
RIGHT_MARGIN == 300
ACTUAL_HEATMAP_WIDTH == HEATMAP_WIDTH - RIGHT_MARGIN
PRICE_STEPS == 10
CAP_SECONDS == 30
CHANNEL_CAPACITY == 100
SHIFT_BITS == 64

(* Bounds of the model *)

\* consecutive connect/send failures in the runs of the whole client
MaxFailures == 6
\* updates the feed delivers in the runs of the whole client
MaxFeedUpdates == 2
\* consecutive connect/send failures in the runs of the backoff
MaxRetry == 66
\* updates the feed delivers in the runs that fill the channel
MaxQueued == 101
\* updates the feed delivers in the runs of the processing loop
MaxUpdates == 2

----------------------------------------------------------------------------
(* f64 values and OrderedFloat keys *)

Rat(n, d) == [k |-> "num", n |-> n, d |-> d]
Num(v) == Rat(v, 1)
NaN == [k |-> "nan", n |-> 0, d |-> 1]
PosInf == [k |-> "inf", n |-> 1, d |-> 1]
NegInf == [k |-> "inf", n |-> -1, d |-> 1]

Sgn(i) == IF i > 0 THEN 1 ELSE IF i < 0 THEN -1 ELSE 0
Inf(sign) == IF sign < 0 THEN NegInf ELSE PosInf

Ok(x) == [ok |-> TRUE, val |-> x]
Err == [ok |-> FALSE, val |-> NaN]

\* str::parse::<f64> on the texts the modelled feed uses: decimal texts give
\* their value (two texts may give the same value, a sign is accepted), "NaN"
\* and "inf" parse successfully, anything else is an error.
ParseF64(text) ==
    CASE text = "10.0" -> Ok(Num(10))
      [] text = "10"   -> Ok(Num(10))
      [] text = "1e1"  -> Ok(Num(10))
      [] text = "9.0"  -> Ok(Num(9))
      [] text = "11.0" -> Ok(Num(11))
      [] text = "12.0" -> Ok(Num(12))
      [] text = "5"    -> Ok(Num(5))
      [] text = "3"    -> Ok(Num(3))
      [] text = "0"    -> Ok(Num(0))
      [] text = "-3"   -> Ok(Num(-3))
      [] text = "NaN"  -> Ok(NaN)
      [] text = "inf"  -> Ok(PosInf)
      [] OTHER         -> Err

\* IEEE comparison a < b (false when either side is NaN)
F64Lt(a, b) ==
    CASE a.k = "nan" \/ b.k = "nan" -> FALSE
      [] a.k = "num" /\ b.k = "num" -> a.n * b.d < b.n * a.d
      [] a.k = "inf" /\ b.k = "inf" -> a.n < b.n
      [] a.k = "inf"                -> a.n < 0
      [] OTHER                      -> b.n > 0

\* f64::max and f64::min: the other operand when one is NaN
F64Max(a, b) ==
    CASE a.k = "nan" -> b
      [] b.k = "nan" -> a
      [] F64Lt(a, b) -> b
      [] OTHER       -> a

F64Min(a, b) ==
    CASE a.k = "nan" -> b
      [] b.k = "nan" -> a
      [] F64Lt(b, a) -> b
      [] OTHER       -> a

F64Neg(a) == IF a.k = "nan" THEN NaN ELSE [a EXCEPT !.n = -a.n]

F64Add(a, b) ==
    CASE a.k = "nan" \/ b.k = "nan" -> NaN
      [] a.k = "inf" /\ b.k = "inf" -> IF a.n = b.n THEN a ELSE NaN
      [] a.k = "inf"                -> a
      [] b.k = "inf"                -> b
      [] OTHER                      -> Rat(a.n * b.d + b.n * a.d, a.d * b.d)

F64Sub(a, b) == F64Add(a, F64Neg(b))

F64Mul(a, b) ==
    CASE a.k = "nan" \/ b.k = "nan" -> NaN
      [] a.k = "num" /\ b.k = "num" -> Rat(a.n * b.n, a.d * b.d)
      [] a.n = 0 \/ b.n = 0         -> NaN
      [] OTHER                      -> Inf(Sgn(a.n) * Sgn(b.n))

\* division; a zero divisor is +0.0 (the only zero divisor the program forms
\* is max_price - min_price)
F64Div(a, b) ==
    CASE a.k = "nan" \/ b.k = "nan" -> NaN
      [] a.k = "inf" /\ b.k = "inf" -> NaN
      [] a.k = "inf"                -> Inf(a.n * (IF b.n < 0 THEN -1 ELSE 1))
      [] b.k = "inf"                -> Num(0)
      [] b.n = 0                    -> IF a.n = 0 THEN NaN ELSE Inf(Sgn(a.n))
      [] OTHER                      -> Rat(a.n * b.d * Sgn(b.n), a.d * b.n * Sgn(b.n))

I32_MAX == 2147483647
I32_MIN == -I32_MAX - 1

\* `x as i32`: NaN gives 0, the value is truncated toward zero and saturates
F64AsI32(a) ==
    CASE a.k = "nan" -> 0
      [] a.k = "inf" -> IF a.n > 0 THEN I32_MAX ELSE I32_MIN
      [] OTHER       -> IF a.n >= 0 THEN a.n \div a.d ELSE -((-a.n) \div a.d)

\* OrderedFloat's total order: NaN is greater than every other value
OrdLt(a, b) ==
    IF a.k = "nan" THEN FALSE
    ELSE IF b.k = "nan" THEN TRUE
    ELSE F64Lt(a, b)

----------------------------------------------------------------------------
(* BTreeMap<OrderedFloat<f64>, f64> *)

EmptyMap == [p \in {} |-> NaN]

\* BTreeMap::insert: a later insert at an equal key replaces the value
MapInsert(m, key, val) ==
    [p \in DOMAIN m \cup {key} |-> IF p = key THEN val ELSE m[p]]

----------------------------------------------------------------------------
(* Wire records: WsLevel, WsBook, WsMessage and the frames that carry them *)

Lv(px, sz) == [px |-> px, sz |-> sz, n |-> 1]

\* the levels arrays the modelled feed sends
LevelsScenario  == << <<Lv("10.0", "5")>>, <<Lv("11.0", "3")>> >>
LevelsOverwrite == << <<Lv("10.0", "5"), Lv("1e1", "3")>>, <<Lv("12.0", "0")>> >>
LevelsMalformed == << <<Lv("abc", "5"), Lv("9.0", "3")>>, <<Lv("11.0", "x")>> >>
LevelsNoBuy     == << << >>, <<Lv("11.0", "3")>>, <<Lv("12.0", "5")>> >>
LevelsNonFinite == << <<Lv("NaN", "5")>>, <<Lv("11.0", "inf")>> >>
LevelsBadSizes  == << <<Lv("10.0", "NaN")>>, <<Lv("11.0", "5"), Lv("12.0", "-3")>> >>
LevelsDrained   == << <<Lv("10.0", "0")>>, <<Lv("11.0", "0")>> >>

\* the arrays sent at every time of the model, and those sent at one time
LevelSets == {LevelsScenario, LevelsOverwrite, LevelsMalformed}
EdgeLevelSets == {LevelsNoBuy, LevelsNonFinite, LevelsBadSizes}

\* the time fields the modelled feed sends, as offsets from env.time_base
Times == {1000, 301000, 301500}

WsBook(levels, time) == [coin |-> "@107", levels |-> levels, time |-> time]
WsMessage(book) == [channel |-> "l2Book", data |-> book]

NoMessage == WsMessage(WsBook(<< >>, 0))

\* An inbound frame: its text is JSON of the WsMessage shape, JSON of another
\* shape (the subscription acknowledgement has no levels and no time), or no
\* JSON at all.  body is what the text denotes when it has the WsMessage shape.
Frame(shape, body) == [shape |-> shape, body |-> body]
NoFrame == Frame("none", NoMessage)

BookFrames ==
    {Frame("wsMessage", WsMessage(WsBook(l, t))) : l \in LevelSets, t \in Times}
    \cup {Frame("wsMessage", WsMessage(WsBook(l, 1000))) : l \in EdgeLevelSets}
BadFrames ==
    {Frame("otherJson", NoMessage), Frame("notJson", NoMessage)}

\* serde_json::from_str::<WsMessage>(&msg.to_string())
Decode(frame) ==
    IF frame.shape = "wsMessage"
    THEN [ok |-> TRUE, val |-> frame.body]
    ELSE [ok |-> FALSE, val |-> NoMessage]

----------------------------------------------------------------------------
(* The processing loop's update of the maps, lines 165-185 *)

\* InsertLevel with `i == 1` choosing the sell map: a group beyond index 1
\* goes to the buy map
InsertLevelSecondGroupSells(st, i, level) ==
    LET price == ParseF64(level.px)
        size  == ParseF64(level.sz)
    IN  IF price.ok /\ size.ok
        THEN IF i = 1
             THEN [st EXCEPT !.sell = MapInsert(st.sell, price.val, size.val)]
             ELSE [st EXCEPT !.buy = MapInsert(st.buy, price.val, size.val)]
        ELSE st

\* one iteration of the inner for loop, for the level of group index i
InsertLevel(st, i, level) ==
    LET price == ParseF64(level.px)
        size  == ParseF64(level.sz)
    IN  IF price.ok /\ size.ok
        THEN IF i = 0
             THEN [st EXCEPT !.buy = MapInsert(st.buy, price.val, size.val)]
             ELSE [st EXCEPT !.sell = MapInsert(st.sell, price.val, size.val)]
        ELSE st

RECURSIVE InsertLevels(_, _, _)
InsertLevels(st, i, levels) ==
    IF levels = << >> THEN st
    ELSE InsertLevels(InsertLevel(st, i, Head(levels)), i, Tail(levels))

\* the outer for loop; i is the enumerate() index of Head(groups)
RECURSIVE InsertGroups(_, _, _)
InsertGroups(st, i, groups) ==
    IF groups = << >> THEN st
    ELSE InsertGroups(InsertLevels(st, i, Head(groups)), i + 1, Tail(groups))

\* ReplaceBook without the clear of lines 165-166: the update is merged into
\* the maps of the previous update
MergeBook(b, s, levels) ==
    InsertGroups([buy |-> b, sell |-> s], 0, levels)

\* clear both maps, then insert every level of the update
ReplaceBook(b, s, levels) ==
    InsertGroups([buy |-> EmptyMap, sell |-> EmptyMap], 0, levels)

\* line 74: `timestamp - 300_000` leaves the range of i64
SubOverflowsI64(timestamp) ==
    env.time_base = "i64_min" /\ timestamp < WINDOW_MS

\* lines 67-71
Pushed(h, b, s, timestamp) ==
    Append(h, [ts |-> timestamp, buy |-> b, sell |-> s])

\* update_history with `*ts >= five_minutes_ago` for the retain of line 75
UpdateHistoryKeepsBoundary(h, b, s, timestamp) ==
    LET five_minutes_ago == timestamp - WINDOW_MS
        Keep(e) == ~SubOverflowsI64(timestamp) /\ e.ts >= five_minutes_ago
    IN  SelectSeq(Pushed(h, b, s, timestamp), Keep)

\* OrderBookState::update_history.  Where the subtraction of line 74
\* overflows and does not panic it wraps to timestamp - 300_000 + 2^64,
\* which is above every time field of the run: the retain keeps nothing.
UpdateHistory(h, b, s, timestamp) ==
    LET five_minutes_ago == timestamp - WINDOW_MS
        Keep(e) == ~SubOverflowsI64(timestamp) /\ e.ts > five_minutes_ago
    IN  SelectSeq(Pushed(h, b, s, timestamp), Keep)

----------------------------------------------------------------------------
(* generate_heatmap, lines 205-361.  The document is kept as the list of   *)
(* its elements with the attributes the function computes.                 *)

RECURSIVE KeysAsc(_)
KeysAsc(S) ==
    IF S = {} THEN << >>
    ELSE LET m == CHOOSE x \in S : \A y \in S \ {x} : OrdLt(x, y)
         IN  <<m>> \o KeysAsc(S \ {m})

Reverse(s) == [i \in 1..Len(s) |-> s[Len(s) + 1 - i]]

\* BTreeMap::keys and BTreeMap::values, in key order
MapKeys(m) == KeysAsc(DOMAIN m)
MapValues(m) == LET ks == MapKeys(m) IN [i \in 1..Len(ks) |-> m[ks[i]]]

RECURSIVE AllPrices(_)
AllPrices(h) ==
    IF h = << >> THEN << >>
    ELSE MapKeys(Head(h).buy) \o MapKeys(Head(h).sell) \o AllPrices(Tail(h))

RECURSIVE FoldMax(_, _)
FoldMax(acc, s) ==
    IF s = << >> THEN acc ELSE FoldMax(F64Max(acc, Head(s)), Tail(s))

RECURSIVE FoldMin(_, _)
FoldMin(acc, s) ==
    IF s = << >> THEN acc ELSE FoldMin(F64Min(acc, Head(s)), Tail(s))

\* every size stored in a snapshot of the history
SizesOf(h) ==
    UNION {{h[i].buy[p] : p \in DOMAIN h[i].buy}
               \cup {h[i].sell[p] : p \in DOMAIN h[i].sell} : i \in 1..Len(h)}

RECURSIVE FoldMaxSet(_, _)
FoldMaxSet(acc, S) ==
    IF S = {} THEN acc
    ELSE LET x == CHOOSE x \in S : TRUE
         IN  FoldMaxSet(F64Max(acc, x), S \ {x})

\* lines 212-214: the fold of f64::max, from 0.0, over the sizes of every
\* snapshot.  f64::max skips a NaN operand and is otherwise commutative,
\* associative and idempotent, so the fold over the sizes in iteration order
\* is the fold over the set of their values.
MaxSize(h) == FoldMaxSet(Num(0), SizesOf(h))

\* the values generate_heatmap computes once per call: max_size (lines
\* 212-214), min_price, max_price, price_range (lines 239-241), the left edge
\* of the time axis (line 247) and the bar width (line 251)
Scale(h) ==
    LET prices == AllPrices(h)
        min_price == FoldMin(PosInf, prices)
        max_price == FoldMax(NegInf, prices)
    IN  [max_size |-> MaxSize(h),
         min_price |-> min_price,
         price_range |-> F64Sub(max_price, min_price),
         five_minutes_ago |-> IF h = << >> THEN 0 ELSE h[Len(h)].ts - WINDOW_MS,
         bar_width |-> IF h = << >> THEN 0
                       ELSE (ACTUAL_HEATMAP_WIDTH + Len(h) - 1) \div Len(h) + 1]

\* ((price - min_price) / price_range * HEATMAP_HEIGHT as f64) as i32
YCast(price, sc) ==
    F64AsI32(F64Mul(F64Div(F64Sub(price, sc.min_price), sc.price_range),
                    Num(HEATMAP_HEIGHT)))

\* HEATMAP_HEIGHT as i32 - cast: the i32 subtraction overflows for a cast
\* below HEATMAP_HEIGHT - i32::MAX; where it does not panic it wraps
SubOverflows(cast) == cast < HEATMAP_HEIGHT - I32_MAX
YOf(cast) ==
    IF SubOverflows(cast)
    THEN (HEATMAP_HEIGHT - I32_MAX - 1) + (-(cast + I32_MAX) - 1)
    ELSE HEATMAP_HEIGHT - cast

\* lines 284-286
Mid(e) ==
    LET bk == MapKeys(e.buy)
        sk == MapKeys(e.sell)
        best_buy == IF bk = << >> THEN Num(0) ELSE bk[Len(bk)]
        best_sell == IF sk = << >> THEN Num(0) ELSE sk[1]
    IN  F64Div(F64Add(best_buy, best_sell), Num(2))

\* (size / max_size).min(1.0)
Alpha(size, sc) == F64Min(F64Div(size, sc.max_size), Num(1))

\* line 250
TimeX(e, sc) ==
    F64AsI32(F64Mul(F64Div(Num(e.ts - sc.five_minutes_ago), Num(WINDOW_MS)),
                    Num(ACTUAL_HEATMAP_WIDTH)))

LevelRect(e, sc, price, size, fill) ==
    [x |-> TimeX(e, sc), y |-> YOf(YCast(price, sc)), width |-> sc.bar_width,
     height |-> 2, fill |-> fill, alpha |-> Alpha(size, sc)]

MidRect(e, sc) ==
    [x |-> TimeX(e, sc), y |-> YOf(YCast(Mid(e), sc)), width |-> sc.bar_width,
     height |-> 1, fill |-> "white", alpha |-> Rat(4, 5)]

\* one iteration of the loop of lines 249-297: sell levels in descending
\* price order, buy levels in ascending price order, the mid marker
SnapshotRects(e, sc) ==
    LET sk == Reverse(MapKeys(e.sell))
        bk == MapKeys(e.buy)
    IN  [i \in 1..Len(sk) |-> LevelRect(e, sc, sk[i], e.sell[sk[i]], "red")]
        \o [i \in 1..Len(bk) |-> LevelRect(e, sc, bk[i], e.buy[bk[i]], "green")]
        \o <<MidRect(e, sc)>>

RECURSIVE HistoryRects(_, _)
HistoryRects(rest, sc) ==
    IF rest = << >> THEN << >>
    ELSE SnapshotRects(Head(rest), sc) \o HistoryRects(Tail(rest), sc)

\* lines 308-329: the tick of step i
Tick(i, sc) ==
    [price |-> F64Add(sc.min_price,
                      F64Div(F64Mul(sc.price_range, Num(i)), Num(PRICE_STEPS))),
     y |-> F64AsI32(F64Mul(Num(HEATMAP_HEIGHT),
                           F64Sub(Num(1), F64Div(Num(i), Num(PRICE_STEPS)))))]

EmptyDocument == [background |-> FALSE, rects |-> << >>, ticks |-> << >>]

\* the casts that lines 255, 270 and 289 subtract from HEATMAP_HEIGHT
YCasts(h) ==
    LET sc == Scale(h)
    IN  {YCast(p, sc) : p \in UNION {DOMAIN h[i].buy \cup DOMAIN h[i].sell
                                      : i \in 1..Len(h)}}
        \cup {YCast(Mid(h[i]), sc) : i \in 1..Len(h)}

\* the call overflows i32 at line 255, 270 or 289
RenderOverflows(h) ==
    /\ F64Lt(Num(0), MaxSize(h))
    /\ \E cast \in YCasts(h) : SubOverflows(cast)

generate_heatmap(h) ==
    IF ~F64Lt(Num(0), MaxSize(h))
    THEN EmptyDocument
    ELSE LET sc == Scale(h)
         IN  [background |-> TRUE,
              rects |-> HistoryRects(h, sc),
              ticks |-> [j \in 1..(PRICE_STEPS + 1) |-> Tick(j - 1, sc)]]

----------------------------------------------------------------------------
(* The connection loop, lines 89-155 *)

\* min(acc * 2^k, cap), by doubling acc while it is below the cap (2^63 is
\* no TLC integer)
RECURSIVE MinShl(_, _, _)
MinShl(acc, k, cap) ==
    IF acc >= cap THEN cap
    ELSE IF k = 0 THEN acc
    ELSE MinShl(2 * acc, k - 1, cap)

\* WaitTime computed from the retry count before its increment
WaitTimeBeforeIncrement(rc) == MinShl(1, (rc - 1) % SHIFT_BITS, CAP_SECONDS)

\* std::cmp::min(1 << retry_count, 30) in u64; a shift by 64 or more, where
\* it does not panic, shifts by retry_count mod 64
WaitTime(rc) == MinShl(1, rc % SHIFT_BITS, CAP_SECONDS)

\* lines 95-98, retry_count = 0: no sleep
NoBackoff ==
    /\ pc = "top"
    /\ retry_count = 0
    /\ wait_time' = 0
    /\ pc' = "connect"
    /\ UNCHANGED <<env, retry_count, ws, inbound, parsed, lost, sent,
                   queue, rx_open, bookVars>>

\* lines 95-98, retry_count > 0: sleep wait_time seconds
Backoff ==
    /\ pc = "top"
    /\ retry_count > 0
    /\ retry_count < SHIFT_BITS \/ ~env.overflow_checks
    /\ wait_time' = WaitTime(retry_count)
    /\ pc' = "connect"
    /\ UNCHANGED <<env, retry_count, ws, inbound, parsed, lost, sent,
                   queue, rx_open, bookVars>>

\* line 96 with overflow checks: 1 << retry_count panics for retry_count >= 64;
\* the task ends and its tx is dropped
ShiftPanics ==
    /\ pc = "top"
    /\ retry_count >= SHIFT_BITS
    /\ env.overflow_checks
    /\ pc' = "panicked"
    /\ UNCHANGED <<env, retry_count, wait_time, ws, inbound, parsed, lost, sent,
                   queue, rx_open, bookVars>>

\* line 100-101: connect_async returns Ok
ConnectOk ==
    /\ pc = "connect"
    /\ ws' = ws + 1
    /\ pc' = "subscribe"
    /\ UNCHANGED <<env, retry_count, wait_time, inbound, parsed, lost, sent,
                   queue, rx_open, bookVars>>

\* lines 147-150: connect_async returns Err
ConnectErr ==
    /\ pc = "connect"
    /\ retry_count < env.max_failures
    /\ retry_count' = retry_count + 1
    /\ lost' = "connect"
    /\ pc' = "top"
    /\ UNCHANGED <<env, wait_time, ws, inbound, parsed, sent,
                   queue, rx_open, bookVars>>

\* SubscribeOk without the reset of line 115
SubscribeOkNoReset ==
    /\ pc = "subscribe"
    /\ pc' = "stream"
    /\ UNCHANGED <<env, retry_count, wait_time, ws, inbound, parsed, lost, sent,
                   queue, rx_open, bookVars>>

\* lines 112-115: the subscription is sent
SubscribeOk ==
    /\ pc = "subscribe"
    /\ retry_count' = 0
    /\ pc' = "stream"
    /\ UNCHANGED <<env, wait_time, ws, inbound, parsed, lost, sent,
                   queue, rx_open, bookVars>>

\* lines 140-144: sending the subscription fails; continue leaves the arm
\* that owns ws_stream
SubscribeErr ==
    /\ pc = "subscribe"
    /\ retry_count < env.max_failures
    /\ retry_count' = retry_count + 1
    /\ ws' = ws - 1
    /\ lost' = "subscribe"
    /\ pc' = "top"
    /\ UNCHANGED <<env, wait_time, inbound, parsed, sent,
                   queue, rx_open, bookVars>>

\* lines 117-122: a frame arrives and decodes; tx.send is awaited
StreamDecoded ==
    /\ pc = "stream"
    /\ sent < env.max_updates
    /\ \E f \in env.frames :
          /\ Decode(f).ok
          /\ inbound' = f
          /\ parsed' = Decode(f).val
    /\ pc' = "send"
    /\ UNCHANGED <<env, retry_count, wait_time, ws, lost, sent,
                   queue, rx_open, bookVars>>

\* StreamUndecodable with a break in the Err arm of lines 127-130
StreamUndecodableBreaks ==
    /\ pc = "stream"
    /\ \E f \in env.frames :
          /\ ~Decode(f).ok
          /\ inbound' = f
    /\ ws' = ws - 1
    /\ lost' = "stream_err"
    /\ pc' = "top"
    /\ UNCHANGED <<env, retry_count, wait_time, parsed, sent,
                   queue, rx_open, bookVars>>

\* lines 117-120, 127-130: a frame arrives and does not decode
StreamUndecodable ==
    /\ pc = "stream"
    /\ \E f \in env.frames :
          /\ ~Decode(f).ok
          /\ inbound' = f
    /\ UNCHANGED <<env, pc, retry_count, wait_time, ws, parsed, lost, sent,
                   queue, rx_open, bookVars>>

\* StreamErr with a ws_stream that outlives the iteration
StreamErrKeepsStream ==
    /\ pc = "stream"
    /\ lost' = "stream_err"
    /\ pc' = "top"
    /\ UNCHANGED <<env, retry_count, wait_time, ws, inbound, parsed, sent,
                   queue, rx_open, bookVars>>

\* lines 133-136: the stream yields an error; break leaves the arm
StreamErr ==
    /\ pc = "stream"
    /\ ws' = ws - 1
    /\ lost' = "stream_err"
    /\ pc' = "top"
    /\ UNCHANGED <<env, retry_count, wait_time, inbound, parsed, sent,
                   queue, rx_open, bookVars>>

\* line 117: the stream ends (next() returns None)
StreamEnd ==
    /\ pc = "stream"
    /\ ws' = ws - 1
    /\ lost' = "stream_end"
    /\ pc' = "top"
    /\ UNCHANGED <<env, retry_count, wait_time, inbound, parsed, sent,
                   queue, rx_open, bookVars>>

\* TxSendOk on a channel without a bound: the send completes at once
TxSendOkUnbounded ==
    /\ pc = "send"
    /\ rx_open
    /\ queue' = Append(queue, parsed)
    /\ parsed' = NoMessage
    /\ sent' = sent + 1
    /\ pc' = "stream"
    /\ UNCHANGED <<env, retry_count, wait_time, ws, inbound, lost,
                   rx_open, bookVars>>

\* line 122: tx.send completes once the channel has room
TxSendOk ==
    /\ pc = "send"
    /\ rx_open
    /\ Len(queue) < CHANNEL_CAPACITY
    /\ queue' = Append(queue, parsed)
    /\ parsed' = NoMessage
    /\ sent' = sent + 1
    /\ pc' = "stream"
    /\ UNCHANGED <<env, retry_count, wait_time, ws, inbound, lost,
                   rx_open, bookVars>>

\* lines 122-125: tx.send fails because the receiver is gone; break leaves
\* the while loop and the arm, control falls to line 153 and loops
TxSendErr ==
    /\ pc = "send"
    /\ ~rx_open
    /\ parsed' = NoMessage
    /\ ws' = ws - 1
    /\ lost' = "channel"
    /\ pc' = "top"
    /\ UNCHANGED <<env, retry_count, wait_time, inbound, sent,
                   queue, rx_open, bookVars>>

----------------------------------------------------------------------------
(* The processing loop, lines 159-202 *)

\* one iteration: the maps, the history and the document it computes
Cycle(msg) ==
    LET book == ReplaceBook(buy, sell, msg.data.levels)
        h == UpdateHistory(history, book.buy, book.sell, msg.data.time)
    IN  [buy |-> book.buy, sell |-> book.sell, history |-> h]

\* Process with an emit error that leaves the loop (a `break` or `?` at
\* lines 198-200): rx is dropped with what the channel holds
ProcessEmitErrEnds ==
    /\ rx_open
    /\ queue # << >>
    /\ LET msg == Head(queue)
           c == Cycle(msg)
       IN  /\ ~(env.overflow_checks /\ SubOverflowsI64(msg.data.time))
           /\ ~(env.overflow_checks /\ RenderOverflows(c.history))
           /\ cur' = msg
           /\ buy' = c.buy
           /\ sell' = c.sell
           /\ history' = c.history
           /\ \E emitted \in BOOLEAN :
                 /\ sink' = [n |-> sink.n + 1, ok |-> emitted,
                             svg |-> generate_heatmap(c.history)]
                 /\ rx_open' = emitted
                 /\ queue' = IF emitted THEN Tail(queue) ELSE << >>
    /\ taken' = taken + 1
    /\ UNCHANGED <<env, feedVars>>

\* lines 161-201: the iteration runs to its end; emit returns Ok or Err
Process ==
    /\ rx_open
    /\ queue # << >>
    /\ LET msg == Head(queue)
           c == Cycle(msg)
       IN  /\ ~(env.overflow_checks /\ SubOverflowsI64(msg.data.time))
           /\ ~(env.overflow_checks /\ RenderOverflows(c.history))
           /\ cur' = msg
           /\ buy' = c.buy
           /\ sell' = c.sell
           /\ history' = c.history
           /\ \E emitted \in BOOLEAN :
                 sink' = [n |-> sink.n + 1, ok |-> emitted,
                          svg |-> generate_heatmap(c.history)]
    /\ taken' = taken + 1
    /\ queue' = Tail(queue)
    /\ UNCHANGED <<env, feedVars, rx_open>>

\* lines 161-191 with overflow checks: generate_heatmap panics at line 255,
\* 270 or 289; the task ends, rx and what the channel holds are dropped
ProcessPanics ==
    /\ rx_open
    /\ queue # << >>
    /\ env.overflow_checks
    /\ LET msg == Head(queue)
           c == Cycle(msg)
       IN  /\ ~SubOverflowsI64(msg.data.time)
           /\ RenderOverflows(c.history)
           /\ cur' = msg
           /\ buy' = c.buy
           /\ sell' = c.sell
           /\ history' = c.history
    /\ taken' = taken + 1
    /\ queue' = << >>
    /\ rx_open' = FALSE
    /\ UNCHANGED <<env, feedVars, sink>>

\* lines 161-188 with overflow checks: update_history panics at line 74,
\* after the push; the task ends, rx and what the channel holds are dropped
HistoryPanics ==
    /\ rx_open
    /\ queue # << >>
    /\ env.overflow_checks
    /\ LET msg == Head(queue)
           book == ReplaceBook(buy, sell, msg.data.levels)
       IN  /\ SubOverflowsI64(msg.data.time)
           /\ cur' = msg
           /\ buy' = book.buy
           /\ sell' = book.sell
           /\ history' = Pushed(history, book.buy, book.sell, msg.data.time)
    /\ taken' = taken + 1
    /\ queue' = << >>
    /\ rx_open' = FALSE
    /\ UNCHANGED <<env, feedVars, sink>>

\* line 161: every sender is gone and the channel is empty, recv returns None
RecvClosed ==
    /\ pc = "panicked"
    /\ rx_open
    /\ queue = << >>
    /\ rx_open' = FALSE
    /\ UNCHANGED <<env, feedVars, queue, bookVars>>

----------------------------------------------------------------------------
(* Specifications *)

\* the frames of the feed-client runs: a two-sided book, a book whose only
\* valid level is one buy level, and frames that do not decode
FeedFrames ==
    {Frame("wsMessage", WsMessage(WsBook(LevelsScenario, 1000))),
     Frame("wsMessage", WsMessage(WsBook(LevelsMalformed, 301000)))}
    \cup BadFrames

\* the frame of the runs that fill the channel: one two-sided book with
\* nothing left at its levels
QueueFrames ==
    {Frame("wsMessage", WsMessage(WsBook(LevelsDrained, 1000)))}

InitState ==
    /\ pc = "top"
    /\ retry_count = 0
    /\ wait_time = 0
    /\ ws = 0
    /\ inbound = NoFrame
    /\ parsed = NoMessage
    /\ lost = "none"
    /\ sent = 0
    /\ queue = << >>
    /\ rx_open = TRUE
    /\ taken = 0
    /\ cur = NoMessage
    /\ buy = EmptyMap
    /\ sell = EmptyMap
    /\ history = << >>
    /\ sink = [n |-> 0, ok |-> TRUE, svg |-> EmptyDocument]

\* the runs of one feed: either build, and each base of the time fields
Environment(frames, max_failures, max_updates, bases) ==
    {[frames |-> frames, max_failures |-> max_failures,
      max_updates |-> max_updates, overflow_checks |-> c, time_base |-> b] :
        c \in BOOLEAN, b \in bases}

\* the whole client on a feed of two books and undecodable frames
Init ==
    /\ env \in Environment(FeedFrames, MaxFailures, MaxFeedUpdates, {"epoch"})
    /\ InitState

\* the processing loop on every book of the model, with time fields from
\* the epoch or from the low end of i64, behind a transport that does not
\* fail and delivers nothing but books
InitBook ==
    /\ env \in Environment(BookFrames, 0, MaxUpdates, {"epoch", "i64_min"})
    /\ InitState

\* the connection loop through long runs of failures, on a feed that sends
\* no book
InitRetry ==
    /\ env \in Environment(BadFrames, MaxRetry, 0, {"epoch"})
    /\ InitState

\* the two loops on a feed that delivers more books than the channel holds,
\* with a consumer free to lag behind
InitQueue ==
    /\ env \in Environment(QueueFrames, 0, MaxQueued, {"epoch"})
    /\ InitState

ConnectionNext ==
    \/ NoBackoff \/ Backoff
    \/ ConnectOk \/ ConnectErr
    \/ SubscribeOk \/ SubscribeErr
    \/ StreamUndecodable \/ StreamErr \/ StreamEnd

ForwardNext == StreamDecoded \/ TxSendOk \/ TxSendErr

ProcessingNext == Process \/ ProcessPanics

\* every step of the two tasks that fewer than 64 consecutive failures allow
Next == ConnectionNext \/ ForwardNext \/ ProcessingNext

\* the steps of the two tasks when the transport does not fail
NextBook ==
    \/ NoBackoff \/ ConnectOk \/ SubscribeOk
    \/ ForwardNext
    \/ ProcessingNext \/ HistoryPanics

\* the steps of the connection loop, and the end of the processing loop
\* once the connection loop is gone
NextRetry == ConnectionNext \/ ShiftPanics \/ RecvClosed

\* the steps of the two tasks when connecting and subscribing succeed and
\* the stream may fail
NextQueue ==
    \/ NoBackoff \/ ConnectOk \/ SubscribeOk
    \/ StreamDecoded \/ TxSendOk \/ StreamErr
    \/ Process

Spec == Init /\ [][Next]_vars
SpecBook == InitBook /\ [][NextBook]_vars
SpecRetry == InitRetry /\ [][NextRetry]_vars
SpecQueue == InitQueue /\ [][NextQueue]_vars

----------------------------------------------------------------------------
(* Properties *)

\* the positions <<g, j>> of the levels of one side whose price and size
\* both parse: group 1 of the array is the buy side, every later group the
\* sell side
ParsedAt(levels, side) ==
    {q \in UNION {{<<g, j>> : j \in 1..Len(levels[g])} : g \in 1..Len(levels)} :
        /\ (side = "buy") <=> (q[1] = 1)
        /\ ParseF64(levels[q[1]][q[2]].px).ok
        /\ ParseF64(levels[q[1]][q[2]].sz).ok}

PriceAt(levels, q) == ParseF64(levels[q[1]][q[2]].px).val
SizeAt(levels, q) == ParseF64(levels[q[1]][q[2]].sz).val
Precedes(q, r) == q[1] < r[1] \/ (q[1] = r[1] /\ q[2] < r[2])

\* the map an update denotes: one key per parsed price, with the size of the
\* last level at that price
LevelsOf(levels, side) ==
    LET at == ParsedAt(levels, side)
    IN  [p \in {PriceAt(levels, q) : q \in at} |->
            LET same == {q \in at : PriceAt(levels, q) = p}
                last == CHOOSE q \in same : \A r \in same : r = q \/ Precedes(r, q)
            IN  SizeAt(levels, last)]

\* C1: once an update has been applied, the buy map and the sell map are
\* exactly the parsed levels of the update applied last (a later level at a
\* price replacing an earlier one), with nothing left of earlier updates.
C1_MapsAreLastUpdate ==
    taken > 0 =>
        /\ buy = LevelsOf(cur.data.levels, "buy")
        /\ sell = LevelsOf(cur.data.levels, "sell")

\* C1 witness: a second update, with two levels at one price, has replaced
\* the maps of the first.
C1_Witness ==
    /\ taken = 2
    /\ Len(history) = 2
    /\ history[1].buy = (Num(10) :> Num(5))
    /\ history[1].sell = (Num(11) :> Num(3))
    /\ cur.data.levels = LevelsOverwrite
    /\ buy = (Num(10) :> Num(3))
    /\ sell = (Num(12) :> Num(0))

\* C2: every entry of the history is newer than the timestamp of its last
\* (newest) entry minus the window.
C2_WindowBound ==
    \A i \in 1..Len(history) :
        history[i].ts > history[Len(history)].ts - WINDOW_MS

\* C2 witness: two updates were applied and the entry of the first, 300500 ms
\* older than the second, is gone.
C2_Witness ==
    /\ taken = 2
    /\ cur.data.time = 301500
    /\ Len(history) = 1
    /\ history[1].ts = 301500

\* C3: the history is ordered by non-decreasing timestamp.
C3_HistorySorted ==
    \A i, j \in 1..Len(history) :
        i < j => history[i].ts <= history[j].ts

\* min(2^n, 30) for the n the runs reach
ExpectedDelay(n) ==
    CASE n = 0 -> 1
      [] n = 1 -> 2
      [] n = 2 -> 4
      [] n = 3 -> 8
      [] n = 4 -> 16
      [] OTHER -> 30

AfterFailure == lost \in {"connect", "subscribe"}

\* C4 as claimed: the connect attempt after a connect or send failure follows
\* a sleep of min(2^r, 30) seconds for the retry count r before its increment.
C4_DelayBeforeIncrement ==
    (pc = "connect" /\ AfterFailure /\ retry_count > 0) =>
        wait_time = ExpectedDelay(retry_count - 1)

\* C4 amended: through the first 63 consecutive failures, the connect attempt
\* after a connect or send failure follows a sleep of min(2^r, 30) seconds
\* for the incremented retry count r: 2, 4, 8, 16, 30, 30, ...
C4_DelayAfterIncrement ==
    (pc = "connect" /\ AfterFailure /\ retry_count < SHIFT_BITS) =>
        /\ retry_count >= 1
        /\ wait_time = ExpectedDelay(retry_count)

\* C4 witness: the fifth consecutive failure, a send failure, was followed by
\* the capped sleep.
C4_Witness ==
    /\ pc = "connect"
    /\ lost = "subscribe"
    /\ retry_count = 5
    /\ wait_time = CAP_SECONDS

\* C5: the connect attempt after a stream error or a stream end follows a
\* backoff sleep with an incremented retry count.
C5_BackoffAfterStreamLoss ==
    (pc = "connect" /\ lost \in {"stream_err", "stream_end"}) =>
        /\ retry_count > 0
        /\ wait_time > 0

\* C6: after a failed queue send the connection loop makes no connection
\* attempt, sends no subscription and reads no frame.
C6_NoReconnectAfterQueueFailure ==
    lost = "channel" => pc \notin {"connect", "subscribe", "stream", "send"}

\* C7: the client reads the stream only with retry_count = 0, a successful
\* connect leaves retry_count as it is, and retry_count returns to zero only
\* in the step that sends the subscription.
C7_ResetOnSubscribe ==
    [][/\ pc' \in {"stream", "send"} => retry_count' = 0
       /\ (pc = "connect" /\ pc' = "subscribe") => retry_count' = retry_count
       /\ (retry_count # 0 /\ retry_count' = 0) =>
              (pc = "subscribe" /\ pc' = "stream")]_vars

\* C7 witness: the client streams with retry_count = 0 after a run of three
\* failures (the last slept 8 seconds).
C7_Witness ==
    /\ pc = "stream"
    /\ AfterFailure
    /\ wait_time = 8
    /\ retry_count = 0

\* C8: at most one connection is open, and none is open while the loop is at
\* its head or awaits connect_async.
C8_OneConnection ==
    /\ ws \in {0, 1}
    /\ pc \in {"top", "connect", "panicked"} => ws = 0
    /\ pc \in {"subscribe", "stream", "send"} => ws = 1

\* C8 witness: the client streams on a new connection after the queue send
\* on the previous one failed.
C8_Witness ==
    /\ pc = "stream"
    /\ lost = "channel"
    /\ ws = 1

\* the step that reads a frame that does not decode
DecodeErrorStep ==
    /\ pc = "stream"
    /\ inbound' # inbound
    /\ ~Decode(inbound').ok

\* C9: reading a frame that does not decode enqueues nothing, keeps the
\* connection and retry_count, and leaves the client reading the stream.
C9_DecodeErrorDiscarded ==
    [][DecodeErrorStep =>
          /\ pc' = "stream"
          /\ ws' = ws
          /\ retry_count' = retry_count
          /\ UNCHANGED <<queue, parsed, sent, lost, wait_time>>]_vars

\* C9 witness: a frame that is no JSON was read after an update had been
\* forwarded, and the client still reads the same stream.
C9_Witness ==
    /\ pc = "stream"
    /\ inbound.shape = "notJson"
    /\ sent = 1
    /\ ws = 1
    /\ lost = "none"

HasMalformed(levels) ==
    \E g \in 1..Len(levels) : \E j \in 1..Len(levels[g]) :
        ~(ParseF64(levels[g][j].px).ok /\ ParseF64(levels[g][j].sz).ok)

\* C10: an update with a level that does not parse still has every other
\* level inserted (and no key from the level skipped), has its entry at the
\* end of the history, and was rendered and emitted.
C10_MalformedLevelSkipped ==
    (taken > 0 /\ HasMalformed(cur.data.levels)) =>
        /\ \A q \in ParsedAt(cur.data.levels, "buy") :
              PriceAt(cur.data.levels, q) \in DOMAIN buy
        /\ \A q \in ParsedAt(cur.data.levels, "sell") :
              PriceAt(cur.data.levels, q) \in DOMAIN sell
        /\ \A p \in DOMAIN buy :
              \E q \in ParsedAt(cur.data.levels, "buy") : PriceAt(cur.data.levels, q) = p
        /\ \A p \in DOMAIN sell :
              \E q \in ParsedAt(cur.data.levels, "sell") : PriceAt(cur.data.levels, q) = p
        /\ history # << >>
        /\ history[Len(history)] = [ts |-> cur.data.time, buy |-> buy, sell |-> sell]
        /\ sink.n = taken
        /\ sink.svg = generate_heatmap(history)

IsFinite(x) == x.k = "num"

\* C11: no key and no stored size of the buy map or of the sell map is NaN
\* or infinite.
C11_NoNonFiniteLevel ==
    /\ \A p \in DOMAIN buy : IsFinite(p) /\ IsFinite(buy[p])
    /\ \A p \in DOMAIN sell : IsFinite(p) /\ IsFinite(sell[p])

\* the prices of the levels of group g (1-based) whose price and size parse
GroupPrices(levels, g) ==
    {ParseF64(levels[g][j].px).val :
        j \in {j \in 1..Len(levels[g]) :
                  ParseF64(levels[g][j].px).ok /\ ParseF64(levels[g][j].sz).ok}}

\* C12: after an update, the keys of the buy map are the prices of the first
\* group of the update and of no other group, the keys of the sell map are
\* the prices of the second and of every later group and not of the first;
\* an update whose first group is empty leaves the buy map empty.
C12_GroupsToSides ==
    taken > 0 =>
        LET levels == cur.data.levels
        IN  /\ DOMAIN buy = IF levels = << >> THEN {} ELSE GroupPrices(levels, 1)
            /\ DOMAIN sell = UNION {GroupPrices(levels, g) : g \in 2..Len(levels)}
            /\ (Len(levels) >= 1 /\ levels[1] = << >>) => buy = EmptyMap

\* C12 witness: an update with an empty first group, one level in the second
\* and one in a third group was applied: the buy map is empty and the sell
\* map holds both levels.
C12_Witness ==
    /\ taken > 0
    /\ cur.data.levels = LevelsNoBuy
    /\ buy = EmptyMap
    /\ sell = (Num(11) :> Num(3)) @@ (Num(12) :> Num(5))

\* what one step may do to the channel and around it
QueueStep ==
    /\ Len(queue') <= CHANNEL_CAPACITY
    /\ rx_open' => sent' = taken' + Len(queue')
    /\ queue' # queue =>
          \/ /\ pc = "send"
             /\ queue' = Append(queue, parsed)
             /\ UNCHANGED bookVars
          \/ /\ queue # << >>
             /\ cur' = Head(queue)
             /\ queue' = Tail(queue)
             /\ taken' = taken + 1
             /\ UNCHANGED feedVars
          \/ ~rx_open'
    /\ (pc = "send" /\ rx_open /\ Len(queue) = CHANNEL_CAPACITY) =>
          UNCHANGED feedVars
    /\ queue = << >> => UNCHANGED bookVars

EmitFailed == taken > 0 /\ sink.n = taken /\ ~sink.ok

\* C14: a cycle that ends in a failed emit leaves the receiver alive, the
\* maps as the update's parsed levels and the history as update_history left
\* it, and the next update consumed after a failed emit is the head of the
\* channel.
C14_EmitFailureNotFatal ==
    [][/\ (taken' # taken /\ EmitFailed') =>
              /\ rx_open'
              /\ buy' = ReplaceBook(EmptyMap, EmptyMap, cur'.data.levels).buy
              /\ sell' = ReplaceBook(EmptyMap, EmptyMap, cur'.data.levels).sell
              /\ history' = UpdateHistory(history, buy', sell', cur'.data.time)
       /\ (EmitFailed /\ taken' # taken) =>
              (queue # << >> /\ cur' = Head(queue) /\ taken' = taken + 1)]_vars

\* C14 witness: the emit of the first update failed, its entry is in the
\* history and a second update waits in the channel.
C14_Witness ==
    /\ EmitFailed
    /\ taken = 1
    /\ Len(history) = 1
    /\ Len(queue) = 1
    /\ rx_open

\* C15: the connection loop never ends: no number of consecutive failures
\* brings it to a state from which no connection attempt follows.
C15_LoopNeverEnds == pc # "panicked"

\* the history has a level of positive size and all its prices are equal
ZeroPriceRange(h) ==
    /\ h # << >>
    /\ F64Lt(Num(0), MaxSize(h))
    /\ Scale(h).price_range.k = "num"
    /\ Scale(h).price_range.n = 0

\* C16: once an update has left the history with a positive max_size and a
\* zero price range, the processing loop is alive, the update was rendered
\* and emitted, and the document holds no level rectangle and no mid marker.
C16_ZeroRangeHandled ==
    (taken > 0 /\ ZeroPriceRange(history)) =>
        /\ rx_open
        /\ sink.n = taken
        /\ sink.svg.rects = << >>

\* IEEE comparisons a >= b and a = b (false when either side is NaN)
F64Ge(a, b) == a.k # "nan" /\ b.k # "nan" /\ ~F64Lt(a, b)
F64Eq(a, b) == F64Ge(a, b) /\ F64Ge(b, a)

\* C17: whenever the renderer draws, the alpha of every level rectangle is
\* at least 0 and at most 1, and it is 1 exactly when the size of the level
\* is at least max_size.
C17_AlphaClamp ==
    (taken > 0 /\ F64Lt(Num(0), MaxSize(history))) =>
        \A i \in 1..Len(history) :
            \A side \in {history[i].buy, history[i].sell} :
                \A p \in DOMAIN side :
                    LET sc == Scale(history)
                        alpha == LevelRect(history[i], sc, p, side[p], "red").alpha
                    IN  /\ F64Ge(alpha, Num(0))
                        /\ F64Ge(Num(1), alpha)
                        /\ F64Eq(alpha, Num(1)) <=> F64Ge(side[p], sc.max_size)

\* C18: every consumed update has had its one emit attempt: the number of
\* emit attempts is the number of updates consumed, and the document of the
\* last attempt is the rendering of the history whose last entry is the
\* update consumed last.
C18_OneEmitPerUpdate ==
    /\ sink.n = taken
    /\ taken > 0 =>
          /\ history # << >>
          /\ history[Len(history)].ts = cur.data.time
          /\ sink.svg = generate_heatmap(history)

\* C19: once an update has been consumed, the history is non-empty, its last
\* entry holds the timestamp of the update consumed last with copies of the
\* buy map and of the sell map, and the renderer's window starts WINDOW_MS
\* before that timestamp.
C19_LastEntryIsUpdate ==
    taken > 0 =>
        /\ history # << >>
        /\ history[Len(history)] = [ts |-> cur.data.time, buy |-> buy, sell |-> sell]
        /\ Scale(history).five_minutes_ago = cur.data.time - WINDOW_MS

\* C20: in a run of consecutive connect and send failures, each backoff
\* sleep is at least as long as the one before it and at most CAP_SECONDS,
\* and a sleep that follows one of CAP_SECONDS is again CAP_SECONDS.
C20_DelayNeverDecreases ==
    [][(pc = "top" /\ pc' = "connect" /\ retry_count > 1) =>
          /\ wait_time' >= wait_time
          /\ wait_time' <= CAP_SECONDS
          /\ wait_time = CAP_SECONDS => wait_time' = CAP_SECONDS]_vars

====
